---- MODULE Spec2Model ----
(***************************************************************************)
(* Tissue Culture Explant Tracker (src/explant.py): the entity store       *)
(* (orders, explant_batches, infection_records, transfer_records,          *)
(* rooting_records, delivery_records), the form handlers that validate and *)
(* write it, the derived quantities computed from it and the reporting     *)
(* pages (Timeline, Statistics, Rooting Summary) that read it.             *)
(*                                                                         *)
(* A table is the set of its rows; a row is a record whose id comes from   *)
(* the table's AUTOINCREMENT sequence and whose fields are the columns the *)
(* handlers validate or compute with (free text and media additives are    *)
(* left out).  Dates are day numbers.  The rows the form handlers write    *)
(* carry no event dates, which no handler reads; the stores the Timeline   *)
(* page is run on carry them.  One action is one submission of a form, one *)
(* press of a button or one run of a reporting page, and carries the whole *)
(* handler: the values the widgets can return, the validation, the store   *)
(* call and what the page then shows.  A store operation opens its own     *)
(* sqlite3 connection; the connections left open are counted.              *)
(***************************************************************************)
EXTENDS Integers, Sequences, FiniteSets, TLC

\* ------------------------------------------------------------------ bounds
\* How many rows are ever inserted, over all tables.
MaxRows == 3
\* The largest value typed into a number input that the code leaves unbounded.
MaxCount == 2
\* The last day of the calendar.
MaxDate == 1
\* The largest "Explants In" typed into a transfer form.
MaxIn == 1

\* SQL NULL / Python None / pandas NaN of a nullable column.
NULL == -1

Dates == 1..MaxDate

VARIABLES
    orders,       \* table orders
    batches,      \* table explant_batches
    infections,   \* table infection_records
    transfers,    \* table transfer_records
    rootings,     \* table rooting_records
    deliveries,   \* table delivery_records
    seq,          \* sqlite_sequence: the last id issued per table
    msg,          \* what the last run showed: a banner (st.success / st.error),
                  \* the exception that ended it, or "" for neither
    today,          \* date.today() of the last Timeline run (NULL: none yet)
    selected_batch, \* the batch picked in the Batch Timeline tab (NULL: none)
    gantt_data,     \* the rows the Gantt tab assembled in the last Timeline run
    timeline_items, \* the entries the Batch Timeline tab showed in that run
    metrics,        \* the rooting rates last shown (Statistics, Rooting Summary)
    connections,    \* how many sqlite3 connections the runs so far left open
    ratio_metric    \* the "Multiplication Ratio" the transfer form last showed

tables == <<orders, batches, infections, transfers, rootings, deliveries, seq>>
\* What the reporting pages last rendered.
pages == <<today, selected_batch, gantt_data, timeline_items, metrics>>
vars == <<tables, msg, pages, connections, ratio_metric>>

TableNames == {"orders", "batches", "infections", "transfers", "rootings"}

\* ------------------------------------------------------------- primitives
RECURSIVE SumOver(_, _)
\* SQL SUM(column) / pandas .sum(): the sum of column[row] over a set of rows.
SumOver(column, rows) ==
    IF rows = {} THEN 0
    ELSE LET r == CHOOSE x \in rows : TRUE
         IN  column[r] + SumOver(column, rows \ {r})

\* SQL COALESCE(a, b).
COALESCE(a, b) == IF a # NULL THEN a ELSE b

\* st.number_input(min_value, max_value): the values the widget can return
\* (no more than MaxCount is ever typed).
number_input(min_value, max_value) ==
    {v \in min_value..max_value : v <= MaxCount}

\* The row with this id (ids are unique: PRIMARY KEY).
Row(table, id) == CHOOSE r \in table : r.id = id

Ids(table) == {r.id : r \in table}

\* Rows issued so far, over all tables.
RowsIssued ==
    seq.orders + seq.batches + seq.infections + seq.transfers + seq.rootings

\* An INSERT is possible while the row budget lasts.
CanInsert == RowsIssued < MaxRows

\* c.lastrowid of an AUTOINCREMENT table.
lastrowid(t) == seq[t] + 1

\* st.success(text): the banner of an applied submission (without the row id).
st_success(text) == text
\* st.error(text): the banner of a rejected submission.
st_error(text) == text

\* ------------------------------------------------------------------ store
\* No rate is on the screen: st.metric has not been called.
no_metrics == [global |-> NULL, overall |-> NULL, cultivar |-> <<>>]

Init ==
    /\ orders = {}
    /\ batches = {}
    /\ infections = {}
    /\ transfers = {}
    /\ rootings = {}
    /\ seq = [t \in TableNames |-> 0]
    /\ deliveries = {}
    /\ msg = ""
    /\ today = NULL
    /\ selected_batch = NULL
    /\ gantt_data = <<>>
    /\ timeline_items = <<>>
    /\ metrics = no_metrics
    /\ connections = 0
    /\ ratio_metric = ""

\* ----------------------------------------------------------------- orders
add_order(client_name, cultivar, num_plants) ==
    /\ orders' = orders \cup
          {[id |-> lastrowid("orders"), client_name |-> client_name,
            cultivar |-> cultivar, num_plants |-> num_plants,
            completed |-> 0, completion_date |-> NULL]}
    /\ seq' = [seq EXCEPT !.orders = @ + 1]

\* A variant of update_order that also reopens the order.
update_order_reopening(order_id, client_name, cultivar, num_plants) ==
    orders' = {IF r.id = order_id
               THEN [r EXCEPT !.client_name = client_name,
                              !.cultivar = cultivar,
                              !.num_plants = num_plants,
                              !.completed = 0]
               ELSE r : r \in orders}

update_order(order_id, client_name, cultivar, num_plants) ==
    orders' = {IF r.id = order_id
               THEN [r EXCEPT !.client_name = client_name,
                              !.cultivar = cultivar,
                              !.num_plants = num_plants]
               ELSE r : r \in orders}

delete_order(order_id) ==
    orders' = {r \in orders : r.id # order_id}

\* UPDATE orders SET completed = 1, completion_date = ? WHERE id = ?
\* (the table after the statement).
mark_order_completed(rows, order_id, completion_date) ==
    {IF r.id = order_id
     THEN [r EXCEPT !.completed = 1, !.completion_date = completion_date]
     ELSE r : r \in rows}

\* A variant of mark_order_incomplete that clears the flag and keeps the date.
mark_order_incomplete_keeping_date(rows, order_id) ==
    {IF r.id = order_id THEN [r EXCEPT !.completed = 0] ELSE r : r \in rows}

\* UPDATE orders SET completed = 0, completion_date = NULL WHERE id = ?
\* (the table after the statement).
mark_order_incomplete(rows, order_id) ==
    {IF r.id = order_id
     THEN [r EXCEPT !.completed = 0, !.completion_date = NULL]
     ELSE r : r \in rows}

\* orders[orders.get('completed', 0) == 0]: the active orders (tab "Mark
\* Complete", statistics and timeline filters).
incomplete_of(rows) == {r \in rows : r.completed = 0}

\* orders[orders.get('completed', 0) == 1]: the completed orders (tab "Mark
\* Complete" and page Archive).
completed_of(rows) == {r \in rows : r.completed = 1}

incomplete_orders == incomplete_of(orders)

completed_orders == completed_of(orders)

\* Text inputs of the order form: empty or filled in.
ClientNames == {"", "client"}
Cultivars == {"", "cultivar"}

new_order_form ==
    \E client_name \in ClientNames, cultivar \in Cultivars,
       num_plants \in number_input(1, MaxCount) :
        IF client_name # "" /\ cultivar # ""
        THEN /\ CanInsert
             /\ add_order(client_name, cultivar, num_plants)
             /\ msg' = st_success("Order added successfully!")
             /\ UNCHANGED <<deliveries, pages, connections, ratio_metric, batches, infections, transfers, rootings>>
        ELSE /\ msg' = st_error("Please fill in all required fields")
             /\ UNCHANGED <<tables, pages, connections, ratio_metric>>

edit_order_form ==
    \E r \in orders, client_name \in ClientNames, cultivar \in Cultivars,
       num_plants \in number_input(1, MaxCount) :
        IF client_name # "" /\ cultivar # ""
        THEN /\ update_order(r.id, client_name, cultivar, num_plants)
             /\ msg' = st_success("Order updated successfully!")
             /\ UNCHANGED <<deliveries, pages, connections, ratio_metric, batches, infections, transfers, rootings, seq>>
        ELSE /\ msg' = st_error("Please fill in all required fields")
             /\ UNCHANGED <<tables, pages, connections, ratio_metric>>

delete_order_button ==
    \E r \in orders :
        /\ delete_order(r.id)
        /\ msg' = st_success("Order deleted successfully!")
        /\ UNCHANGED <<deliveries, pages, connections, ratio_metric, batches, infections, transfers, rootings, seq>>

complete_order_form ==
    \E r \in incomplete_orders, completion_date \in Dates :
        /\ orders' = mark_order_completed(orders, r.id, completion_date)
        /\ msg' = st_success("Order marked as complete!")
        /\ UNCHANGED <<deliveries, pages, connections, ratio_metric, batches, infections, transfers, rootings, seq>>

mark_incomplete_button ==
    \E r \in completed_orders :
        /\ orders' = mark_order_incomplete(orders, r.id)
        /\ msg' = st_success("Order marked as incomplete!")
        /\ UNCHANGED <<deliveries, pages, connections, ratio_metric, batches, infections, transfers, rootings, seq>>

OrderNext ==
    \/ new_order_form
    \/ edit_order_form
    \/ delete_order_button
    \/ complete_order_form
    \/ mark_incomplete_button

SpecOrders == Init /\ [][OrderNext]_vars

\* ---------------------------------------------------------------- batches
add_explant_batch(order_id, num_explants) ==
    /\ batches' = batches \cup
          {[id |-> lastrowid("batches"), order_id |-> order_id,
            num_explants |-> num_explants]}
    /\ seq' = [seq EXCEPT !.batches = @ + 1]

update_explant_batch(batch_id, order_id, num_explants) ==
    batches' = {IF r.id = batch_id
                THEN [r EXCEPT !.order_id = order_id,
                               !.num_explants = num_explants]
                ELSE r : r \in batches}

\* The cascade deletes by batch_id in each dependent table.
delete_explant_batch(batch_id) ==
    /\ infections' = {r \in infections : r.batch_id # batch_id}
    /\ transfers' = {r \in transfers : r.batch_id # batch_id}
    /\ rootings' = {r \in rootings : r.batch_id # batch_id}
    /\ batches' = {r \in batches : r.id # batch_id}

\* "Link to Order (optional)": None or one of the orders of the store.
OrderChoices == {NULL} \cup Ids(orders)

BatchNames == {"", "batch"}

new_batch_form ==
    \E order_id \in OrderChoices, batch_name \in BatchNames,
       num_explants \in number_input(1, MaxCount) :
        IF batch_name # ""
        THEN /\ CanInsert
             /\ add_explant_batch(order_id, num_explants)
             /\ msg' = st_success("Batch initiated successfully!")
             /\ UNCHANGED <<deliveries, pages, connections, ratio_metric, orders, infections, transfers, rootings>>
        ELSE /\ msg' = st_error("Please fill in all required fields")
             /\ UNCHANGED <<tables, pages, connections, ratio_metric>>

edit_batch_form ==
    \E b \in batches, edit_order_id \in OrderChoices,
       edit_batch_name \in BatchNames,
       edit_num_explants \in number_input(1, MaxCount) :
        IF edit_batch_name # ""
        THEN /\ update_explant_batch(b.id, edit_order_id, edit_num_explants)
             /\ msg' = st_success("Batch updated successfully!")
             /\ UNCHANGED <<deliveries, pages, connections, ratio_metric, orders, infections, transfers, rootings, seq>>
        ELSE /\ msg' = st_error("Please fill in all required fields")
             /\ UNCHANGED <<tables, pages, connections, ratio_metric>>

delete_batch_button ==
    \E b \in batches :
        /\ delete_explant_batch(b.id)
        /\ msg' = st_success("Batch deleted successfully!")
        /\ UNCHANGED <<deliveries, pages, connections, ratio_metric, orders, seq>>

\* ---------------------------------------------------------- contamination
\* A variant of add_infection_record whose aggregate counts the lost explants
\* only.
add_infection_record_lost_only(batch_id, num_lost, num_affected) ==
    LET num_infected == num_lost
    IN  /\ infections' = infections \cup
              {[id |-> lastrowid("infections"), batch_id |-> batch_id,
                num_infected |-> num_infected, num_lost |-> num_lost,
                num_affected |-> num_affected]}
        /\ seq' = [seq EXCEPT !.infections = @ + 1]

add_infection_record(batch_id, num_lost, num_affected) ==
    LET num_infected == num_lost + num_affected
    IN  /\ infections' = infections \cup
              {[id |-> lastrowid("infections"), batch_id |-> batch_id,
                num_infected |-> num_infected, num_lost |-> num_lost,
                num_affected |-> num_affected]}
        /\ seq' = [seq EXCEPT !.infections = @ + 1]

update_infection_record(record_id, batch_id, num_lost, num_affected) ==
    LET num_infected == num_lost + num_affected
    IN  infections' = {IF r.id = record_id
                       THEN [r EXCEPT !.batch_id = batch_id,
                                      !.num_infected = num_infected,
                                      !.num_lost = num_lost,
                                      !.num_affected = num_affected]
                       ELSE r : r \in infections}

delete_infection_record(record_id) ==
    infections' = {r \in infections : r.id # record_id}

\* A variant of total_infections without the fallback: a NULL num_lost
\* counts as 0.
total_infections_without_fallback(records, batch_id) ==
    LET rows == {r \in records : r.batch_id = batch_id}
    IN  SumOver([r \in rows |-> COALESCE(r.num_lost, 0)], rows)

\* SELECT COALESCE(SUM(COALESCE(num_lost, num_infected)), 0)
\*   FROM infection_records WHERE batch_id = ?
total_infections(records, batch_id) ==
    LET rows == {r \in records : r.batch_id = batch_id}
    IN  SumOver([r \in rows |-> COALESCE(r.num_lost, r.num_infected)], rows)

get_total_infections_for_batch(batch_id) ==
    total_infections(infections, batch_id)

\* The 'healthy' entry of get_batch_summary: batch[3] - SUM(num_infected).
get_batch_summary_healthy(batch_id) ==
    LET rows == {r \in infections : r.batch_id = batch_id}
        total_infected == SumOver([r \in rows |-> r.num_infected], rows)
    IN  Row(batches, batch_id).num_explants - total_infected

\* infection_form: "Remaining healthy", computed when the form runs.
infection_remaining(b) ==
    b.num_explants - get_total_infections_for_batch(b.id)

\* max_value=remaining if remaining > 0 else 0
lost_max_value(remaining) == IF remaining > 0 THEN remaining ELSE 0

\* A variant of infection_form_branch that refuses a loss equal to the
\* remaining count.
infection_form_branch_strict(remaining, num_lost, num_affected) ==
    IF num_lost = 0 /\ num_affected = 0 THEN "zero"
    ELSE IF remaining > num_lost THEN "add"
    ELSE "exceeds"

\* The branch taken on submit: "zero", "add" or "exceeds".
infection_form_branch(remaining, num_lost, num_affected) ==
    IF num_lost = 0 /\ num_affected = 0 THEN "zero"
    ELSE IF remaining >= num_lost THEN "add"
    ELSE "exceeds"

\* A variant of infection_form_submit that writes the record first and
\* validates afterwards.
infection_form_submit_write_first(b, num_lost, num_affected) ==
    LET branch == infection_form_branch(infection_remaining(b), num_lost,
                                        num_affected)
    IN  /\ CanInsert
        /\ add_infection_record(b.id, num_lost, num_affected)
        /\ msg' = IF branch = "zero"
                  THEN st_error("Please enter at least one explant lost or affected")
                  ELSE IF branch = "add"
                  THEN st_success("Contamination record added successfully!")
                  ELSE st_error("Cannot lose more explants than remaining healthy count")
        /\ UNCHANGED <<deliveries, pages, connections, ratio_metric, orders, batches, transfers, rootings>>

\* infection_form submitted with these widget values.
infection_form_submit(b, num_lost, num_affected) ==
        LET remaining == infection_remaining(b)
            branch == infection_form_branch(remaining, num_lost, num_affected)
        IN  IF branch = "zero"
            THEN /\ msg' = st_error("Please enter at least one explant lost or affected")
                 /\ UNCHANGED <<tables, pages, connections, ratio_metric>>
            ELSE IF branch = "add"
            THEN /\ CanInsert
                 /\ add_infection_record(b.id, num_lost, num_affected)
                 /\ msg' = st_success("Contamination record added successfully!")
                 /\ UNCHANGED <<deliveries, pages, connections, ratio_metric, orders, batches, transfers, rootings>>
            ELSE /\ msg' = st_error("Cannot lose more explants than remaining healthy count")
                 /\ UNCHANGED <<tables, pages, connections, ratio_metric>>

infection_form ==
    \E b \in batches :
      \E num_lost \in number_input(0, lost_max_value(infection_remaining(b))),
         num_affected \in number_input(0, MaxCount) :
        infection_form_submit(b, num_lost, num_affected)

\* current_lost / current_num_lost of the record being edited.
current_lost(rec) == COALESCE(rec.num_lost, COALESCE(rec.num_infected, 0))

\* current_num_affected of the record being edited.
current_affected(rec) == COALESCE(rec.num_affected, 0)

\* edit_infection_form: remaining of the batch selected in the form, with the
\* edited record's lost count added back.
edit_infection_remaining(rec, b) ==
    b.num_explants - get_total_infections_for_batch(b.id) + current_lost(rec)

\* The branch taken on submit: "zero", "update" or "exceeds".
edit_infection_form_branch(remaining, edit_num_lost, edit_num_affected) ==
    IF edit_num_lost = 0 /\ edit_num_affected = 0 THEN "zero"
    ELSE IF edit_num_lost <= remaining THEN "update"
    ELSE "exceeds"

\* edit_infection_form submitted for record rec with these widget values.
edit_infection_form_submit(rec, b, edit_num_lost, edit_num_affected) ==
           LET remaining == edit_infection_remaining(rec, b)
               branch == edit_infection_form_branch(remaining, edit_num_lost,
                                                    edit_num_affected)
           IN  IF branch = "zero"
               THEN /\ msg' = st_error("Please enter at least one explant lost or affected")
                    /\ UNCHANGED <<tables, pages, connections, ratio_metric>>
               ELSE IF branch = "update"
               THEN /\ update_infection_record(rec.id, b.id, edit_num_lost,
                                               edit_num_affected)
                    /\ msg' = st_success("Contamination record updated successfully!")
                    /\ UNCHANGED <<deliveries, pages, connections, ratio_metric, orders, batches, transfers, rootings, seq>>
               ELSE /\ msg' = st_error("Cannot lose more explants than remaining healthy count")
                    /\ UNCHANGED <<tables, pages, connections, ratio_metric>>

edit_infection_form ==
    \E rec \in infections, b \in batches :
      LET remaining == edit_infection_remaining(rec, b) IN
      \* the number input is built with value=current_num_lost, which must lie
      \* within its max_value for the form to render
      /\ current_lost(rec) <= lost_max_value(remaining)
      /\ \E edit_num_lost \in number_input(0, lost_max_value(remaining)),
            edit_num_affected \in number_input(0, MaxCount) :
           edit_infection_form_submit(rec, b, edit_num_lost, edit_num_affected)

delete_infection_button ==
    \E rec \in infections :
        /\ delete_infection_record(rec.id)
        /\ msg' = st_success("Contamination record deleted successfully!")
        /\ UNCHANGED <<deliveries, pages, connections, ratio_metric, orders, batches, transfers, rootings, seq>>

ContaminationNext ==
    \/ new_batch_form
    \/ edit_batch_form
    \/ delete_batch_button
    \/ infection_form
    \/ edit_infection_form
    \/ delete_infection_button

SpecContamination == Init /\ [][ContaminationNext]_vars

\* -------------------------------------------------------------- transfers
add_transfer_record(batch_id, parent_transfer_id, explants_in, explants_out, new_media) ==
    /\ transfers' = transfers \cup
          {[id |-> lastrowid("transfers"), batch_id |-> batch_id,
            parent_transfer_id |-> parent_transfer_id,
            explants_in |-> explants_in, explants_out |-> explants_out,
            new_media |-> new_media]}
    /\ seq' = [seq EXCEPT !.transfers = @ + 1]

update_transfer_record(transfer_id, batch_id, parent_transfer_id, explants_in, explants_out, new_media) ==
    transfers' = {IF r.id = transfer_id
                  THEN [r EXCEPT !.batch_id = batch_id,
                                 !.parent_transfer_id = parent_transfer_id,
                                 !.explants_in = explants_in,
                                 !.explants_out = explants_out,
                                 !.new_media = new_media]
                  ELSE r : r \in transfers}

\* Variant: the transfer row is deleted and its rooting records are kept.
delete_transfer_record_keeping_rooting(transfer_id) ==
    /\ rootings' = rootings
    /\ transfers' = {r \in transfers : r.id # transfer_id}

delete_transfer_record(transfer_id) ==
    /\ rootings' = {r \in rootings : r.transfer_id # transfer_id}
    /\ transfers' = {r \in transfers : r.id # transfer_id}

\* get_transfer_records(batch_id)
get_transfer_records(batch_id) == {r \in transfers : r.batch_id = batch_id}

\* "New Media Type*": the rooting medium and one of the six other media.
MediaTypes == {"100% MS", "Rooting Media"}

\* f"{value:.2f}" of value = numerator / denominator, two positive integers:
\* the float is rounded to hundredths, a tie to the even hundredth (a tie is
\* an odd number of eighths here, which the float holds exactly), and printed
\* with two digits after the point.
format_2f(numerator, denominator) ==
    LET q == (100 * numerator) \div denominator
        r == (100 * numerator) % denominator
        hundredths == IF 2 * r > denominator THEN q + 1
                      ELSE IF 2 * r < denominator THEN q
                      ELSE IF q % 2 = 0 THEN q ELSE q + 1
        cents == hundredths % 100
    IN  ToString(hundredths \div 100) \o "." \o
        (IF cents < 10 THEN "0" ELSE "") \o ToString(cents)

\* A variant of multiplication_ratio that cuts the digits after the second.
multiplication_ratio_truncated(explants_in, explants_out) ==
    LET cents == ((100 * explants_out) \div explants_in) % 100
    IN  ToString(explants_out \div explants_in) \o "." \o
        (IF cents < 10 THEN "0" ELSE "") \o ToString(cents) \o "x"

\* ratio = explants_out / explants_in; f"{ratio:.2f}x"
multiplication_ratio(explants_in, explants_out) ==
    format_2f(explants_out, explants_in) \o "x"

\* transfer_form submitted with "Explants In" and "Explants Out" typed from
\* these values.
transfer_form_submit(ins, outs) ==
    \E b \in batches :
      \E parent_transfer_id \in {NULL} \cup Ids(get_transfer_records(b.id)),
         explants_in \in ins,
         explants_out \in outs,
         new_media \in MediaTypes :
        /\ ratio_metric' = IF explants_in > 0
                           THEN multiplication_ratio(explants_in, explants_out)
                           ELSE ""
        /\ IF new_media # ""
           THEN /\ CanInsert
                /\ add_transfer_record(b.id, parent_transfer_id, explants_in,
                                       explants_out, new_media)
                /\ msg' = st_success("Transfer recorded successfully!")
                /\ UNCHANGED <<deliveries, pages, connections, orders, batches, infections, rootings>>
           ELSE /\ msg' = st_error("Please specify the new media type")
                /\ UNCHANGED <<tables, pages, connections>>

transfer_form ==
    transfer_form_submit(number_input(1, MaxIn), number_input(1, MaxCount))

edit_transfer_form ==
    \E t \in transfers, b \in batches :
      \E edit_parent_transfer_id \in
             {NULL} \cup (Ids(get_transfer_records(b.id)) \ {t.id}),
         edit_explants_in \in number_input(1, MaxIn),
         edit_explants_out \in number_input(1, MaxCount),
         edit_new_media \in MediaTypes :
        IF edit_new_media # ""
        THEN /\ update_transfer_record(t.id, b.id, edit_parent_transfer_id,
                                       edit_explants_in, edit_explants_out,
                                       edit_new_media)
             /\ msg' = st_success("Transfer updated successfully!")
             /\ UNCHANGED <<deliveries, pages, connections, ratio_metric, orders, batches, infections, rootings, seq>>
        ELSE /\ msg' = st_error("Please specify the new media type")
             /\ UNCHANGED <<tables, pages, connections, ratio_metric>>

delete_transfer_button ==
    \E t \in transfers :
        /\ delete_transfer_record(t.id)
        /\ msg' = st_success("Transfer deleted successfully!")
        /\ UNCHANGED <<deliveries, pages, connections, ratio_metric, orders, batches, infections, seq>>

\* ---------------------------------------------------------------- rooting
add_rooting_record(transfer_id, batch_id, num_placed, num_rooted, rooting_date) ==
    /\ rootings' = rootings \cup
          {[id |-> lastrowid("rootings"), transfer_id |-> transfer_id,
            batch_id |-> batch_id, num_placed |-> num_placed,
            num_rooted |-> num_rooted, rooting_date |-> rooting_date]}
    /\ seq' = [seq EXCEPT !.rootings = @ + 1]

update_rooting_record(record_id, num_rooted, rooting_date) ==
    rootings' = {IF r.id = record_id
                 THEN [r EXCEPT !.num_rooted = num_rooted,
                                !.rooting_date = rooting_date]
                 ELSE r : r \in rootings}

update_rooting_record_full(record_id, transfer_id, batch_id, num_placed, num_rooted, rooting_date) ==
    rootings' = {IF r.id = record_id
                 THEN [r EXCEPT !.transfer_id = transfer_id,
                                !.batch_id = batch_id,
                                !.num_placed = num_placed,
                                !.num_rooted = num_rooted,
                                !.rooting_date = rooting_date]
                 ELSE r : r \in rootings}

delete_rooting_record(record_id) ==
    rootings' = {r \in rootings : r.id # record_id}

\* get_rooting_records(transfer_id=...)
get_rooting_records(transfer_id) ==
    {r \in rootings : r.transfer_id = transfer_id}

\* transfers[transfers['new_media'] == 'Rooting Media']
rooting_transfers == {t \in transfers : t.new_media = "Rooting Media"}

\* rooting_form: the transfers offered (those whose batch is in the store).
rooting_transfer_options ==
    {t \in rooting_transfers : t.batch_id \in Ids(batches)}

\* already_placed = existing_rooting['num_placed'].sum()
already_placed(transfer_id) ==
    LET rows == get_rooting_records(transfer_id)
    IN  SumOver([r \in rows |-> r.num_placed], rows)

\* A variant of rooting_remaining that overlooks what is already placed.
rooting_remaining_ignoring_placed(t) == t.explants_out

\* rooting_form: remaining output of the selected transfer.
rooting_remaining(t) ==
    IF get_rooting_records(t.id) # {}
    THEN t.explants_out - already_placed(t.id)
    ELSE t.explants_out

\* max_value=remaining if remaining > 0 else 1
placed_max_value(remaining) == IF remaining > 0 THEN remaining ELSE 1

\* The branch taken on submit: "add" or "exceeds".
rooting_form_branch(remaining, num_placed) ==
    IF num_placed <= remaining THEN "add" ELSE "exceeds"

\* num_rooted if num_rooted > 0 else None
rooted_or_none(num_rooted) == IF num_rooted > 0 THEN num_rooted ELSE NULL

\* st.date_input(value=None): a date, or nothing.
OptionalDates == {NULL} \cup Dates

\* rooting_form submitted for transfer t with these widget values.
rooting_form_submit(t, num_placed, num_rooted, rooting_date) ==
        IF rooting_form_branch(rooting_remaining(t), num_placed) = "add"
        THEN /\ CanInsert
             /\ add_rooting_record(t.id, t.batch_id, num_placed,
                                   rooted_or_none(num_rooted), rooting_date)
             /\ msg' = st_success("Rooting record added successfully!")
             /\ UNCHANGED <<deliveries, pages, connections, ratio_metric, orders, batches, infections, transfers>>
        ELSE /\ msg' = st_error("Cannot place more explants than available")
             /\ UNCHANGED <<tables, pages, connections, ratio_metric>>

rooting_form ==
    \E t \in rooting_transfer_options :
      \E num_placed \in number_input(1, placed_max_value(rooting_remaining(t))),
         num_rooted \in number_input(0, MaxCount),
         rooting_date \in OptionalDates :
        rooting_form_submit(t, num_placed, num_rooted, rooting_date)

\* value=int(num_rooted) if pd.notna(num_rooted) else 0
rooted_value(rec) == COALESCE(rec.num_rooted, 0)

update_rooting_form ==
    \E rec \in rootings :
      LET max_rooted == rec.num_placed IN
      \* the number input is built with value=the stored num_rooted, which must
      \* lie within its max_value for the form to render
      /\ batches # {}
      /\ rooted_value(rec) <= max_rooted
      /\ \E new_num_rooted \in number_input(0, max_rooted),
            new_rooting_date \in Dates :
           /\ update_rooting_record(rec.id, new_num_rooted, new_rooting_date)
           /\ msg' = st_success("Rooting record updated successfully!")
           /\ UNCHANGED <<deliveries, pages, connections, ratio_metric, orders, batches, infections, transfers, seq>>

\* edit_rooting_form: "Select Transfer*", or None without rooting transfers.
edit_transfer_choices ==
    IF rooting_transfers # {} THEN Ids(rooting_transfers) ELSE {NULL}

edit_rooting_form ==
    \E rec \in rootings, b \in batches :
      \E edit_transfer_id \in edit_transfer_choices,
         edit_num_placed \in number_input(1, MaxCount),
         edit_rooting_date \in OptionalDates :
        /\ rooted_value(rec) <= edit_num_placed
        /\ \E edit_num_rooted \in number_input(0, edit_num_placed) :
             /\ update_rooting_record_full(rec.id, edit_transfer_id, b.id,
                                           edit_num_placed,
                                           rooted_or_none(edit_num_rooted),
                                           edit_rooting_date)
             /\ msg' = st_success("Rooting record updated successfully!")
             /\ UNCHANGED <<deliveries, pages, connections, ratio_metric, orders, batches, infections, transfers, seq>>

delete_rooting_button ==
    \E rec \in rootings :
        /\ delete_rooting_record(rec.id)
        /\ msg' = st_success("Rooting record deleted successfully!")
        /\ UNCHANGED <<deliveries, pages, connections, ratio_metric, orders, batches, infections, transfers, seq>>

RootingNext ==
    \/ new_batch_form
    \/ delete_batch_button
    \/ transfer_form
    \/ edit_transfer_form
    \/ delete_transfer_button
    \/ rooting_form
    \/ update_rooting_form
    \/ edit_rooting_form
    \/ delete_rooting_button

SpecRooting == Init /\ [][RootingNext]_vars

\* Placing explants on rooting medium: the handlers that build up what a
\* transfer has left to place.
PlacementNext ==
    \/ new_batch_form
    \/ transfer_form
    \/ rooting_form

SpecPlacement == Init /\ [][PlacementNext]_vars

\* The forms that validate a submission before they write.
ValidationNext ==
    \/ new_order_form
    \/ new_batch_form
    \/ infection_form
    \/ edit_infection_form
    \/ transfer_form
    \/ rooting_form

SpecValidation == Init /\ [][ValidationNext]_vars

\* A store opened from an existing database file: one batch, and contamination
\* records written when the table had no num_lost and num_affected values
\* (both columns are nullable; num_infected is NOT NULL).
LegacyRow(id, num_infected) ==
    [id |-> id, batch_id |-> 1, num_infected |-> num_infected,
     num_lost |-> NULL, num_affected |-> NULL]

InitLegacy ==
    /\ orders = {}
    /\ transfers = {}
    /\ rootings = {}
    /\ \E n \in 1..MaxCount :
         batches = {[id |-> 1, order_id |-> NULL, num_explants |-> n]}
    /\ \E count \in 0..(MaxRows - 1) :
         \E num_infected \in [1..count -> 1..MaxCount] :
           /\ infections = {LegacyRow(i, num_infected[i]) : i \in 1..count}
           /\ seq = [t \in TableNames |->
                      IF t = "batches" THEN 1
                      ELSE IF t = "infections" THEN count ELSE 0]
    /\ deliveries = {}
    /\ msg = ""
    /\ today = NULL
    /\ selected_batch = NULL
    /\ gantt_data = <<>>
    /\ timeline_items = <<>>
    /\ metrics = no_metrics
    /\ connections = 0
    /\ ratio_metric = ""

LegacyNext ==
    \/ infection_form
    \/ edit_infection_form
    \/ delete_infection_button

SpecLegacy == InitLegacy /\ [][LegacyNext]_vars

\* ---------------------------------------------------------- Timeline page
\* The Timeline page reads the event dates of the rows: order_date and
\* completion_date of an order, initiation_date of a batch,
\* identification_date of a contamination record, transfer_date, the
\* placement_date and rooting_date of a rooting record, delivery_date.  The
\* stores it is run on (InitTimeline below) carry them.

\* The last day of the calendar of the dated stores.
MaxDay == 4

Days == 1..MaxDay

RECURSIVE ORDER_BY_DESC(_, _)
\* pd.read_sql_query("SELECT ... ORDER BY <column> DESC"): the rows as a frame,
\* latest first; rows of one date come in rowid order.
ORDER_BY_DESC(rows, column) ==
    IF rows = {} THEN <<>>
    ELSE LET first == CHOOSE r \in rows : \A s \in rows :
                          \/ r[column] > s[column]
                          \/ r[column] = s[column] /\ r.id <= s.id
         IN  <<first>> \o ORDER_BY_DESC(rows \ {first}, column)

RECURSIVE sort_values(_, _)
\* frame.sort_values(column): ascending; rows of one value keep the order
\* they have in the frame (numpy sorts a short array by insertion).
sort_values(frame, column) ==
    IF frame = <<>> THEN <<>>
    ELSE LET n == Len(frame)
             i == CHOOSE k \in 1..n : \A j \in 1..n :
                      \/ frame[k][column] < frame[j][column]
                      \/ frame[k][column] = frame[j][column] /\ k <= j
         IN  <<frame[i]>>
             \o sort_values(SubSeq(frame, 1, i - 1) \o SubSeq(frame, i + 1, n),
                            column)

\* frame[frame['batch_id'] == batch_id]
of_batch(frame, batch_id) == SelectSeq(frame, LAMBDA r : r.batch_id = batch_id)

\* One dict appended to gantt_data.  batch_id is not a key of the dict: it
\* records the iteration of the batch loop that appended the row.
gantt_row(cultivar, batch_id, Task, Start, Finish, Duration) ==
    [Cultivar |-> cultivar, Task |-> Task, Start |-> Start, Finish |-> Finish,
     Duration |-> Duration, batch_id |-> batch_id]

\* The one-day marker of an event: Finish = Start + 1 day, Duration 1.
gantt_marker(cultivar, batch_id, Task, date) ==
    gantt_row(cultivar, batch_id, Task, date, date + 1, 1)

\* The block every event after the initiation goes through: a passive row
\* from prev_date to the event when the event is later than prev_date + 1
\* day, the event's marker, prev_date = the end of the marker.  acc holds the
\* Python variables gantt_data and prev_date (NULL while prev_date is not
\* bound) and the exception that ended the run ("" for none).
gantt_event(acc, cultivar, batch_id, Task, date) ==
    IF acc.exception # "" THEN acc
    ELSE IF acc.prev_date = NULL
    THEN [acc EXCEPT !.exception = "NameError: name 'prev_date' is not defined"]
    ELSE LET passive ==
                 IF date > acc.prev_date + 1
                 THEN <<gantt_row(cultivar, batch_id, "Passive Time",
                                  acc.prev_date, date, date - acc.prev_date)>>
                 ELSE <<>>
         IN  [acc EXCEPT
                !.gantt_data = @ \o passive
                                 \o <<gantt_marker(cultivar, batch_id, Task, date)>>,
                !.prev_date = date + 1]

transfer_task(transfer) ==
    "Transfer #" \o ToString(transfer.id) \o ": " \o transfer.new_media
    \o " (" \o ToString(transfer.explants_in) \o "->"
    \o ToString(transfer.explants_out) \o ")"

RECURSIVE gantt_transfers(_, _, _, _)
\* for idx, transfer in sorted_transfers.iterrows()
gantt_transfers(acc, cultivar, batch_id, sorted_transfers) ==
    IF sorted_transfers = <<>> THEN acc
    ELSE gantt_transfers(
             gantt_event(acc, cultivar, batch_id,
                         transfer_task(Head(sorted_transfers)),
                         Head(sorted_transfers).transfer_date),
             cultivar, batch_id, Tail(sorted_transfers))

\* One rooting record: the placement, then the completion if it has a date.
gantt_rooting_record(acc, cultivar, batch_id, rooting) ==
    LET placed == gantt_event(acc, cultivar, batch_id,
                      "Rooting Placement: " \o ToString(rooting.num_placed)
                      \o " placed", rooting.placement_date)
        num_rooted == IF rooting.num_rooted # NULL THEN rooting.num_rooted ELSE 0
    IN  IF rooting.rooting_date # NULL
        THEN gantt_event(placed, cultivar, batch_id,
                 "Rooting Complete: " \o ToString(num_rooted) \o " rooted",
                 rooting.rooting_date)
        ELSE placed

RECURSIVE gantt_rooting(_, _, _, _)
\* for idx, rooting in sorted_rooting.iterrows()
gantt_rooting(acc, cultivar, batch_id, sorted_rooting) ==
    IF sorted_rooting = <<>> THEN acc
    ELSE gantt_rooting(
             gantt_rooting_record(acc, cultivar, batch_id, Head(sorted_rooting)),
             cultivar, batch_id, Tail(sorted_rooting))

RECURSIVE gantt_deliveries(_, _, _, _)
\* for idx, delivery in sorted_deliveries.iterrows()
gantt_deliveries(acc, cultivar, batch_id, sorted_deliveries) ==
    IF sorted_deliveries = <<>> THEN acc
    ELSE gantt_deliveries(
             gantt_event(acc, cultivar, batch_id,
                 "Delivery: " \o ToString(Head(sorted_deliveries).num_delivered)
                 \o " delivered", Head(sorted_deliveries).delivery_date),
             cultivar, batch_id, Tail(sorted_deliveries))

\* The completion date the batch loop looks up: set only for an order that
\* exists, is completed and has a completion date.
order_completion(batch) ==
    IF batch.order_id # NULL /\ batch.order_id \in Ids(orders)
       /\ Row(orders, batch.order_id).completed = 1
    THEN Row(orders, batch.order_id).completion_date
    ELSE NULL

\* The frames the Gantt tab loads.
gantt_frames ==
    [transfers |-> ORDER_BY_DESC(transfers, "transfer_date"),
     rooting_records |-> ORDER_BY_DESC(rootings, "placement_date"),
     delivery_records |-> ORDER_BY_DESC(deliveries, "delivery_date")]

\* The block of the batch loop for the batches that have transfers: the gap
\* from the initiation to the first transfer, then every transfer, then the
\* rooting records of the batch.
gantt_transfers_block(acc, cultivar, batch_id, init_end, frames) ==
    LET batch_transfers == of_batch(frames.transfers, batch_id)
        batch_rooting == of_batch(frames.rooting_records, batch_id)
        first_transfer_date ==
            sort_values(batch_transfers, "transfer_date")[1].transfer_date
        first_gap ==
            IF first_transfer_date > init_end
            THEN <<gantt_row(cultivar, batch_id, "Passive Time", init_end,
                             first_transfer_date, first_transfer_date - init_end)>>
            ELSE <<>>
        start == [acc EXCEPT !.gantt_data = @ \o first_gap, !.prev_date = init_end]
        moved == gantt_transfers(start, cultivar, batch_id,
                                 sort_values(batch_transfers, "transfer_date"))
    IN  gantt_rooting(moved, cultivar, batch_id,
                      sort_values(batch_rooting, "placement_date"))

\* One iteration of "for _, batch in filtered_batches.iterrows()".
gantt_batch(acc, batch, frames) ==
    IF acc.exception # "" THEN acc
    ELSE
    LET order == Row(orders, batch.order_id)
        cultivar == order.cultivar
        order_date == order.order_date
        init_date == batch.initiation_date
        init_end == init_date + 1
        to_init ==
            IF init_date > order_date + 1
            THEN <<gantt_row(cultivar, batch.id, "Passive Time", order_date + 1,
                             init_date, init_date - (order_date + 1))>>
            ELSE <<>>
        opened == [acc EXCEPT !.gantt_data =
                      @ \o <<gantt_marker(cultivar, batch.id, "Order Received",
                                          order_date)>>
                        \o to_init
                        \o <<gantt_marker(cultivar, batch.id, "Explant Initiation",
                                          init_date)>>]
        grown == IF of_batch(frames.transfers, batch.id) # <<>>
                 THEN gantt_transfers_block(opened, cultivar, batch.id, init_end,
                                            frames)
                 ELSE opened
        delivered == gantt_deliveries(grown, cultivar, batch.id,
                         sort_values(of_batch(frames.delivery_records, batch.id),
                                     "delivery_date"))
        \* the completion block does not assign prev_date
        completed == gantt_event(delivered, cultivar, batch.id,
                                 "Order Completed", order_completion(batch))
    IN  IF order_completion(batch) # NULL
        THEN [completed EXCEPT !.prev_date = delivered.prev_date]
        ELSE delivered

RECURSIVE gantt_loop(_, _, _)
gantt_loop(acc, filtered_batches, frames) ==
    IF filtered_batches = <<>> THEN acc
    ELSE gantt_loop(gantt_batch(acc, Head(filtered_batches), frames),
                    Tail(filtered_batches), frames)

\* batches.merge(orders, how='left') restricted to the rows whose cultivar is
\* set: the batches whose order exists, in the order of get_explant_batches().
batches_with_orders ==
    SelectSeq(ORDER_BY_DESC(batches, "initiation_date"),
              LAMBDA b : b.order_id # NULL /\ b.order_id \in Ids(orders))

\* The else of the batch loop, run when the loop ends: the names init_date
\* and cultivar are those of the last iteration.
gantt_loop_else(acc, last_batch, today_) ==
    IF acc.exception # "" THEN acc
    ELSE LET init_date == last_batch.initiation_date
         IN  IF today_ > init_date + 1
             THEN [acc EXCEPT !.gantt_data =
                      @ \o <<gantt_row(Row(orders, last_batch.order_id).cultivar,
                                       last_batch.id, "Passive Time",
                                       init_date + 1, today_,
                                       today_ - init_date - 1)>>]
             ELSE acc

\* The Gantt tab: gantt_data after the run and the exception that ended it
\* (every cultivar is selected).
gantt_chart(today_) ==
    LET empty == [gantt_data |-> <<>>, prev_date |-> NULL, exception |-> ""]
        filtered_batches == batches_with_orders
    IN  IF batches = {} \/ orders = {} \/ filtered_batches = <<>>
        THEN empty
        ELSE gantt_loop_else(
                 gantt_loop(empty, filtered_batches, gantt_frames),
                 filtered_batches[Len(filtered_batches)], today_)

\* The order a batch of the Batch Timeline tab is linked to: order_info is
\* the set holding the row (empty for None).  The order is looked up by
\* position in the rows of get_orders() that carry the batch's order_id, unless
\* get_orders() is empty: when the order is gone and others remain, the
\* position is out of bounds.
timeline_order_info(batch_info) ==
    LET found == {o \in orders : o.id = batch_info.order_id}
    IN  IF batch_info.order_id = NULL \/ orders = {}
        THEN [order_info |-> {}, exception |-> ""]
        ELSE IF found = {}
        THEN [order_info |-> {},
              exception |-> "IndexError: single positional indexer is out-of-bounds"]
        ELSE [order_info |-> found, exception |-> ""]

\* One dict appended to timeline_items.  source is not a key of the dict: it
\* names the row the entry was made from.
timeline_item(date, event, details, table, id) ==
    [date |-> date, event |-> event, details |-> details, source |-> <<table, id>>]

\* The 'Rooting Completed' details divide num_rooted by num_placed.  A
\* num_rooted column in which no row has a value is read as None objects
\* (with one value present the column is float and a missing one is NaN).
rooting_completed_raises(rooting_records, rooting) ==
    /\ rooting.rooting_date # NULL
    /\ \A r \in rooting_records : r.num_rooted = NULL

rooting_items(rooting) ==
    <<timeline_item(rooting.placement_date, "Placed in Rooting Media",
                    ToString(rooting.num_placed) \o " explants placed",
                    "rooting_records", rooting.id)>>
    \o IF rooting.rooting_date # NULL
       THEN <<timeline_item(rooting.rooting_date, "Rooting Completed",
                  IF rooting.num_rooted = NULL THEN "nan explants rooted (nan%)"
                  ELSE ToString(rooting.num_rooted) \o " explants rooted ("
                       \o ToString((rooting.num_rooted * 100) \div rooting.num_placed)
                       \o "%)",
                  "rooting_completion", rooting.id)>>
       ELSE <<>>

RECURSIVE rooting_items_of(_)
\* for _, rooting in rooting_records.iterrows(): the entries of every record.
rooting_items_of(frame) ==
    IF frame = <<>> THEN <<>>
    ELSE rooting_items(Head(frame)) \o rooting_items_of(Tail(frame))

\* strftime('%Y-%m-%d') of a day of the calendar.
strftime(day) == "2024-01-0" \o ToString(day)

\* The Batch Timeline tab for the selected batch: the entries shown (sorted
\* by date, dates formatted) and the exception that ended the run.
batch_timeline(batch_id) ==
    LET batch_info == Row(batches, batch_id)
        linked == timeline_order_info(batch_info)
        infection_frame ==
            ORDER_BY_DESC({r \in infections : r.batch_id = batch_id},
                          "identification_date")
        transfer_frame == ORDER_BY_DESC(get_transfer_records(batch_id),
                                        "transfer_date")
        rooting_records == {r \in rootings : r.batch_id = batch_id}
        rooting_frame == ORDER_BY_DESC(rooting_records, "placement_date")
        batch_deliveries ==
            of_batch(ORDER_BY_DESC(deliveries, "delivery_date"), batch_id)
        order_items(event) ==
            IF linked.order_info = {} THEN <<>>
            ELSE LET order_info == CHOOSE o \in linked.order_info : TRUE
                 IN  IF event = "Order Received"
                     THEN <<timeline_item(order_info.order_date, event,
                                "Client: " \o order_info.client_name
                                \o ", Cultivar: " \o order_info.cultivar,
                                "orders", order_info.id)>>
                     ELSE IF order_info.completed = 1
                             /\ order_info.completion_date # NULL
                     THEN <<timeline_item(order_info.completion_date, event,
                                "Order marked as complete",
                                "order_completion", order_info.id)>>
                     ELSE <<>>
        timeline_df ==
            order_items("Order Received")
            \o <<timeline_item(batch_info.initiation_date, "Explant Initiation",
                     ToString(batch_info.num_explants) \o " explants",
                     "explant_batches", batch_info.id)>>
            \o [i \in 1..Len(infection_frame) |->
                   timeline_item(infection_frame[i].identification_date,
                       "Infection Identified",
                       ToString(infection_frame[i].num_infected) \o " explants",
                       "infection_records", infection_frame[i].id)]
            \o [i \in 1..Len(transfer_frame) |->
                   timeline_item(transfer_frame[i].transfer_date, "Transfer",
                       ToString(transfer_frame[i].explants_in) \o " in "
                       \o ToString(transfer_frame[i].explants_out)
                       \o " out, Media: " \o transfer_frame[i].new_media,
                       "transfer_records", transfer_frame[i].id)]
            \o rooting_items_of(rooting_frame)
            \o [i \in 1..Len(batch_deliveries) |->
                   timeline_item(batch_deliveries[i].delivery_date, "Delivery",
                       ToString(batch_deliveries[i].num_delivered)
                       \o " plants delivered",
                       "delivery_records", batch_deliveries[i].id)]
            \o order_items("Order Completed")
        sorted == sort_values(timeline_df, "date")
    IN  IF linked.exception # ""
        THEN [timeline_items |-> <<>>, exception |-> linked.exception]
        ELSE IF \E r \in rooting_records :
                    rooting_completed_raises(rooting_records, r)
        THEN [timeline_items |-> <<>>,
              exception |-> "TypeError: unsupported operand type(s) for /"]
        ELSE [timeline_items |->
                  [i \in 1..Len(sorted) |->
                      [sorted[i] EXCEPT !.date = strftime(@)]],
              exception |-> ""]

\* date.today() on the day the page is opened: the last day of the calendar.
date_today == {MaxDay}

\* Variant: a Timeline run that appends to the gantt_data of the run before
\* instead of starting from gantt_data = [].
timeline_page_keeping_rows ==
    /\ \E today_ \in date_today :
         LET chart == gantt_chart(today_)
         IN  /\ today' = today_
             /\ gantt_data' = gantt_data \o chart.gantt_data
             /\ msg' = chart.exception
             /\ selected_batch' = NULL
             /\ timeline_items' = <<>>
    /\ UNCHANGED <<tables, metrics, connections, ratio_metric>>

\* One run of the Timeline page: the Gantt tab, then the Batch Timeline tab
\* for the batch picked in its selectbox.  An exception ends the run: the
\* page shows it and nothing of the tab that raised or of what follows.
timeline_page ==
    /\ \E today_ \in date_today :
         LET chart == gantt_chart(today_)
         IN  /\ today' = today_
             /\ IF chart.exception # ""
                THEN /\ gantt_data' = <<>>
                     /\ msg' = chart.exception
                     /\ selected_batch' = NULL
                     /\ timeline_items' = <<>>
                ELSE /\ gantt_data' = chart.gantt_data
                     /\ IF batches = {}
                        THEN /\ selected_batch' = NULL
                             /\ timeline_items' = <<>>
                             /\ msg' = ""
                        ELSE \E batch_id \in Ids(batches) :
                               LET shown == batch_timeline(batch_id)
                               IN  /\ selected_batch' = batch_id
                                   /\ timeline_items' = shown.timeline_items
                                   /\ msg' = shown.exception
    /\ UNCHANGED <<tables, metrics, connections, ratio_metric>>

\* A store with a history: one order (open, or completed on some day), a
\* batch linked to it, perhaps a second batch (linked to it or to no order),
\* and up to MaxRows rows over the batches and their transfer, rooting,
\* delivery and contamination records, every event on a day of the calendar.
\* A rooting record belongs to a transfer and to that transfer's batch; what
\* rooting_form stores for "Number Rooted" 0 is NULL, with or without a
\* rooting date.
RootingOutcomes ==
    {<<NULL, NULL>>} \cup {<<num_rooted, day>> : num_rooted \in {NULL, 1}, day \in Days}

InitTimeline ==
    /\ \E order_date \in Days, completion_date \in {NULL} \cup Days :
         orders = {[id |-> 1, client_name |-> "client", cultivar |-> "cultivar",
                    num_plants |-> 1, order_date |-> order_date,
                    completed |-> IF completion_date = NULL THEN 0 ELSE 1,
                    completion_date |-> completion_date]}
    /\ \E nb \in 1..2 :
       \E nt \in 0..(MaxRows - nb) :
       \E nr \in 0..(IF nt = 0 THEN 0 ELSE MaxRows - nb - nt) :
       \E nd \in 0..(MaxRows - nb - nt - nr) :
       \E ni \in 0..(MaxRows - nb - nt - nr - nd) :
       \E fb \in {f \in [1..nb -> {1, NULL} \X Days] : f[1][1] = 1} :
       \E ft \in [1..nt -> (1..nb) \X Days] :
       \E fr \in [1..nr -> (1..nt) \X Days \X RootingOutcomes] :
       \E fd \in [1..nd -> (1..nb) \X Days] :
       \E fi \in [1..ni -> (1..nb) \X Days] :
         /\ batches = {[id |-> i, order_id |-> fb[i][1], num_explants |-> 1,
                        initiation_date |-> fb[i][2]] : i \in 1..nb}
         /\ transfers = {[id |-> i, batch_id |-> ft[i][1],
                          parent_transfer_id |-> NULL, explants_in |-> 1,
                          explants_out |-> 1, new_media |-> "Rooting Media",
                          transfer_date |-> ft[i][2]] : i \in 1..nt}
         /\ rootings = {[id |-> i, transfer_id |-> fr[i][1],
                         batch_id |-> ft[fr[i][1]][1], num_placed |-> 1,
                         placement_date |-> fr[i][2],
                         num_rooted |-> fr[i][3][1],
                         rooting_date |-> fr[i][3][2]] : i \in 1..nr}
         /\ deliveries = {[id |-> i, order_id |-> 1, batch_id |-> fd[i][1],
                           num_delivered |-> 1,
                           delivery_date |-> fd[i][2]] : i \in 1..nd}
         /\ infections = {[id |-> i, batch_id |-> fi[i][1], num_infected |-> 1,
                           num_lost |-> 1, num_affected |-> 0,
                           identification_date |-> fi[i][2]] : i \in 1..ni}
         /\ seq = [t \in TableNames |->
                    IF t = "orders" THEN 1
                    ELSE IF t = "batches" THEN nb
                    ELSE IF t = "transfers" THEN nt
                    ELSE IF t = "rootings" THEN nr
                    ELSE ni]
    /\ msg = ""
    /\ today = NULL
    /\ selected_batch = NULL
    /\ gantt_data = <<>>
    /\ timeline_items = <<>>
    /\ metrics = no_metrics
    /\ connections = 0
    /\ ratio_metric = ""

TimelineNext == timeline_page

SpecTimeline == InitTimeline /\ [][TimelineNext]_vars

\* ------------------------------------------------- a store with dependents
\* A store in use: an open order, two batches (the first linked to the order),
\* a transfer to rooting medium in each batch, two rooting records placed from
\* the first transfer and a contamination record of the first batch, as
\* new_order_form, new_batch_form, transfer_form, rooting_form and
\* infection_form write them.
InitCascade ==
    /\ orders = {[id |-> 1, client_name |-> "client", cultivar |-> "cultivar",
                  num_plants |-> 1, completed |-> 0, completion_date |-> NULL]}
    /\ batches = {[id |-> 1, order_id |-> 1, num_explants |-> MaxCount],
                  [id |-> 2, order_id |-> NULL, num_explants |-> MaxCount]}
    /\ infections = {[id |-> 1, batch_id |-> 1, num_infected |-> 1,
                      num_lost |-> 1, num_affected |-> 0]}
    /\ transfers = {[id |-> i, batch_id |-> i, parent_transfer_id |-> NULL,
                     explants_in |-> 1, explants_out |-> MaxCount,
                     new_media |-> "Rooting Media"] : i \in 1..2}
    /\ rootings = {[id |-> i, transfer_id |-> 1, batch_id |-> 1,
                    num_placed |-> 1, num_rooted |-> NULL,
                    rooting_date |-> NULL] : i \in 1..2}
    /\ seq = [t \in TableNames |->
                IF t \in {"orders", "infections"} THEN 1 ELSE 2]
    /\ deliveries = {}
    /\ msg = ""
    /\ today = NULL
    /\ selected_batch = NULL
    /\ gantt_data = <<>>
    /\ timeline_items = <<>>
    /\ metrics = no_metrics
    /\ connections = 0
    /\ ratio_metric = ""

\* The handlers that retie or remove the dependents of a batch and a transfer.
CascadeNext ==
    \/ edit_rooting_form
    \/ delete_batch_button
    \/ delete_transfer_button
    \/ delete_rooting_button

SpecCascade == InitCascade /\ [][CascadeNext]_vars

\* A dated store with two open orders, a batch linked to one of them and at
\* most one transfer of the batch.
InitOrphan ==
    /\ \E order_date \in [1..2 -> Days] :
         orders = {[id |-> i, client_name |-> "client", cultivar |-> "cultivar",
                    num_plants |-> 1, order_date |-> order_date[i],
                    completed |-> 0, completion_date |-> NULL] : i \in 1..2}
    /\ \E order_id \in 1..2, initiation_date \in Days :
         batches = {[id |-> 1, order_id |-> order_id, num_explants |-> 1,
                     initiation_date |-> initiation_date]}
    /\ \E nt \in 0..1, transfer_date \in Days :
         /\ transfers = {[id |-> i, batch_id |-> 1, parent_transfer_id |-> NULL,
                          explants_in |-> 1, explants_out |-> 1,
                          new_media |-> "Rooting Media",
                          transfer_date |-> transfer_date] : i \in 1..nt}
         /\ seq = [t \in TableNames |->
                     IF t = "orders" THEN 2
                     ELSE IF t = "batches" THEN 1
                     ELSE IF t = "transfers" THEN nt ELSE 0]
         /\ (nt = 0 => transfer_date = 1)
    /\ infections = {}
    /\ rootings = {}
    /\ deliveries = {}
    /\ msg = ""
    /\ today = NULL
    /\ selected_batch = NULL
    /\ gantt_data = <<>>
    /\ timeline_items = <<>>
    /\ metrics = no_metrics
    /\ connections = 0
    /\ ratio_metric = ""

\* Orders are deleted while the Timeline page is read.
OrphanNext ==
    \/ delete_order_button
    \/ timeline_page

SpecOrphan == InitOrphan /\ [][OrphanNext]_vars

\* ------------------------------------------------------------- statistics
\* The rooting rate the summaries compute from a frame of rooting records:
\* sum(num_rooted, a missing value counting 0) / sum(num_placed) * 100, and 0
\* without placements.  The rate is kept in tenths of a percent (the metric
\* shows one decimal).
rooting_rate(rooting_records) ==
    LET total_placed ==
            SumOver([r \in rooting_records |-> r.num_placed], rooting_records)
        total_rooted ==
            SumOver([r \in rooting_records |-> COALESCE(r.num_rooted, 0)],
                    rooting_records)
    IN  IF total_placed > 0 THEN (total_rooted * 1000) \div total_placed ELSE 0

\* The batches the Statistics page keeps: with "Include Archived Orders" off,
\* those linked to an order that is not completed or to no order.
statistics_batches(include_archived) ==
    LET active_order_ids == Ids(incomplete_of(orders))
    IN  IF include_archived THEN batches
        ELSE {b \in batches : b.order_id \in active_order_ids \/ b.order_id = NULL}

\* The rooting records it keeps: those of the kept batches, unless no batch
\* is kept.
statistics_rooting(include_archived) ==
    LET active_batch_ids == Ids(statistics_batches(include_archived))
    IN  IF ~include_archived /\ active_batch_ids # {}
        THEN {r \in rootings : r.batch_id \in active_batch_ids}
        ELSE rootings

\* "Global Rooting Rate" (NULL: the metric is not shown without batches).
global_rooting_rate(include_archived) ==
    IF statistics_batches(include_archived) # {}
    THEN rooting_rate(statistics_rooting(include_archived))
    ELSE NULL

\* The rooting rate of the per-cultivar table, for each cultivar of an order
\* some kept batch is linked to.
cultivar_rooting_rate(include_archived) ==
    LET kept == statistics_batches(include_archived)
        linked == {b \in kept : b.order_id \in Ids(orders)}
        cultivar_of(b) == Row(orders, b.order_id).cultivar
    IN  IF orders = {} \/ kept = {} THEN <<>>
        ELSE [cultivar \in {cultivar_of(b) : b \in linked} |->
                rooting_rate({r \in statistics_rooting(include_archived) :
                    \E b \in linked :
                        b.id = r.batch_id /\ cultivar_of(b) = cultivar})]

\* One run of the Statistics page, both tabs.
statistics_page ==
    /\ \E include_archived \in BOOLEAN :
         metrics' = [global |-> global_rooting_rate(include_archived),
                     overall |-> NULL,
                     cultivar |-> cultivar_rooting_rate(include_archived)]
    /\ msg' = ""
    /\ UNCHANGED <<tables, today, selected_batch, gantt_data, timeline_items,
                   connections, ratio_metric>>

\* One run of the Rooting Tracking page, tab "Rooting Records": the "Overall
\* Rooting Rate" of the records of all batches or of the batch filtered on.
rooting_records_tab ==
    /\ batches # {}
    /\ \E filter_batch_id \in {NULL} \cup Ids(batches) :
         LET rooting_records ==
                 IF filter_batch_id = NULL THEN rootings
                 ELSE {r \in rootings : r.batch_id = filter_batch_id}
         IN  /\ rooting_records # {}
             /\ metrics' = [global |-> NULL,
                            overall |-> rooting_rate(rooting_records),
                            cultivar |-> <<>>]
    /\ msg' = ""
    /\ UNCHANGED <<tables, today, selected_batch, gantt_data, timeline_items,
                   connections, ratio_metric>>

\* Rooting results are entered, the order is completed or reopened, and the
\* rates are read.
StatisticsNext ==
    \/ complete_order_form
    \/ mark_incomplete_button
    \/ update_rooting_form
    \/ delete_rooting_button
    \/ statistics_page
    \/ rooting_records_tab

SpecStatistics == InitCascade /\ [][StatisticsNext]_vars

\* ------------------------------------------------------- transfer lineage
\* Batches are initiated, transfers are recorded and edited.
LineageNext ==
    \/ new_batch_form
    \/ transfer_form
    \/ edit_transfer_form

SpecLineage == Init /\ [][LineageNext]_vars

\* ------------------------------------------------------------ connections
\* Every store operation has the shape
\*     conn = get_connection(); c = conn.cursor(); c.execute(...);
\*     conn.commit(); conn.close()
\* without try/finally or a context manager.  The handlers above are the runs
\* in which every statement is executed: what get_connection() opened,
\* conn.close() has closed again when the operation returns.

\* The most connections ever left open.
MaxOpen == 2

\* c.execute(sql, params): the statement runs, or sqlite3 raises (the database
\* file is locked by another session's write, the disk is full, ...).
sqlite_outcomes == {"ok", "sqlite3.OperationalError"}

\* sqlite3.connect(DB_PATH): one more open connection.
get_connection(open) == open + 1

\* conn.close()
conn_close(open) == open - 1

\* A store operation left by the exception c.execute raised: the connection is
\* open, the lines after c.execute (commit, close) were not run, nothing was
\* written, and the run ends with the exception on the page.
execute_raises(outcome) ==
    /\ connections < MaxOpen
    /\ connections' = get_connection(connections)
    /\ msg' = outcome
    /\ UNCHANGED <<tables, pages, ratio_metric>>

\* One run of a handler whose submission reaches its store operation.
store_operation(handler, outcome) ==
    IF outcome = "ok"
    THEN /\ handler
         /\ connections' = conn_close(get_connection(connections))
    ELSE execute_raises(outcome)

\* "Add Order": add_order.
new_order_run ==
    \E outcome \in sqlite_outcomes : store_operation(new_order_form, outcome)

\* "Mark Complete": mark_order_completed.
complete_order_run ==
    \E outcome \in sqlite_outcomes :
        /\ incomplete_orders # {}
        /\ store_operation(complete_order_form, outcome)

\* "Reopen": mark_order_incomplete.
mark_incomplete_run ==
    \E outcome \in sqlite_outcomes :
        /\ completed_orders # {}
        /\ store_operation(mark_incomplete_button, outcome)

\* "Delete Order": delete_order.
delete_order_run ==
    \E outcome \in sqlite_outcomes :
        /\ orders # {}
        /\ store_operation(delete_order_button, outcome)

ConnectionNext ==
    \/ new_order_run
    \/ complete_order_run
    \/ mark_incomplete_run
    \/ delete_order_run

SpecConnections == Init /\ [][ConnectionNext]_vars

\* ----------------------------------------------------- multiplication ratio
\* What is typed into "Explants In*" and "Explants Out*" (min_value=1, no
\* max_value) when the ratio is read.
RatioIns == {3, 8, 10}
RatioOuts == {5, 25}

transfer_form_ratio == transfer_form_submit(RatioIns, RatioOuts)

RatioNext ==
    \/ new_batch_form
    \/ transfer_form_ratio
    \/ edit_transfer_form

SpecRatio == Init /\ [][RatioNext]_vars

\* ------------------------------------------- edit forms submitted as shown
\* A select box is built from a dict of label -> value and an index; left
\* alone it returns the label at that index.  options is the dict as the
\* sequence of its items.
option(key, value) == [key |-> key, value |-> value]

option_keys(options) == {options[i].key : i \in 1..Len(options)}

\* index=list(options.keys()).index(default) if default in options else 0,
\* and the value the select box returns when it is not touched.
selectbox_default_value(options, default) ==
    IF default \in option_keys(options)
    THEN options[CHOOSE i \in 1..Len(options) : options[i].key = default].value
    ELSE options[1].value

\* f"{batch_name} (ID: {id})"
batch_option_key(batch) == "batch (ID: " \o ToString(batch.id) \o ")"

\* batch_options of the edit forms, in the order of get_explant_batches().
batch_options ==
    LET frame == ORDER_BY_DESC(batches, "initiation_date")
    IN  [i \in 1..Len(frame) |-> option(batch_option_key(frame[i]), frame[i].id)]

\* default_batch: the key of the record's batch, or the first key when the
\* batch is not in the store.
default_batch(current_batch_id) ==
    IF current_batch_id \in Ids(batches)
    THEN batch_option_key(Row(batches, current_batch_id))
    ELSE batch_options[1].key

\* edit_transfer_form: parent_options of the transfers of the selected batch,
\* keyed f"Transfer #{id} ({transfer_date})", the edited transfer left out.
parent_options(edit_batch_id, transfer_id) ==
    LET frame == SelectSeq(of_batch(ORDER_BY_DESC(transfers, "transfer_date"),
                                    edit_batch_id),
                           LAMBDA row : row.id # transfer_id)
    IN  <<option("New transfer (from original batch)", NULL)>> \o
        [i \in 1..Len(frame) |->
            option("Transfer #" \o ToString(frame[i].id) \o " ("
                   \o strftime(frame[i].transfer_date) \o ")", frame[i].id)]

\* default_parent: current_parent_key = f"Transfer #{int(current_parent)}" if
\* it is a key of parent_options, else the "New transfer" key.
default_parent(current_parent, options) ==
    IF current_parent # NULL
    THEN LET current_parent_key == "Transfer #" \o ToString(current_parent)
         IN  IF current_parent_key \in option_keys(options)
             THEN current_parent_key
             ELSE "New transfer (from original batch)"
    ELSE "New transfer (from original batch)"

\* edit_transfer_form submitted with "Select Batch*" and "Parent Transfer" as
\* the form showed them.
edit_transfer_form_untouched ==
    \E t \in transfers :
      LET edit_batch_id ==
              selectbox_default_value(batch_options, default_batch(t.batch_id))
          options == parent_options(edit_batch_id, t.id)
          edit_parent_transfer_id ==
              IF get_transfer_records(edit_batch_id) # {}
              THEN selectbox_default_value(options,
                       default_parent(t.parent_transfer_id, options))
              ELSE NULL
      IN  /\ batches # {}
          /\ \E edit_explants_out \in number_input(1, MaxCount) :
               update_transfer_record(t.id, edit_batch_id,
                                      edit_parent_transfer_id, t.explants_in,
                                      edit_explants_out, t.new_media)
          /\ msg' = st_success("Transfer updated successfully!")
          /\ UNCHANGED <<deliveries, pages, connections, ratio_metric, orders, batches, infections, rootings, seq>>

\* edit_rooting_form: transfer_options of the transfers to rooting medium,
\* keyed f"Transfer #{id} - Batch {batch_id}".
rooting_transfer_choices ==
    LET frame == SelectSeq(ORDER_BY_DESC(transfers, "transfer_date"),
                           LAMBDA row : row.new_media = "Rooting Media")
    IN  [i \in 1..Len(frame) |->
            option("Transfer #" \o ToString(frame[i].id) \o " - Batch "
                   \o ToString(frame[i].batch_id), frame[i].id)]

\* default_transfer: current_transfer_key = f"Transfer #{int(transfer_id)}"
\* if it is a key of transfer_options, else the first key.
default_transfer(current_transfer_id, options) ==
    IF current_transfer_id # NULL
    THEN LET current_transfer_key ==
                 "Transfer #" \o ToString(current_transfer_id)
         IN  IF current_transfer_key \in option_keys(options)
             THEN current_transfer_key
             ELSE options[1].key
    ELSE options[1].key

\* edit_rooting_form submitted with "Select Transfer*" and "Select Batch*" as
\* the form showed them.
edit_rooting_form_untouched ==
    \E rec \in rootings :
      LET options == rooting_transfer_choices
          edit_transfer_id ==
              IF rooting_transfers # {}
              THEN selectbox_default_value(options,
                       default_transfer(rec.transfer_id, options))
              ELSE NULL
          edit_batch_id ==
              selectbox_default_value(batch_options, default_batch(rec.batch_id))
      IN  /\ batches # {}
          /\ \E edit_num_placed \in number_input(1, MaxCount) :
               /\ rooted_value(rec) <= edit_num_placed
               /\ update_rooting_record_full(rec.id, edit_transfer_id,
                      edit_batch_id, edit_num_placed,
                      rooted_or_none(rooted_value(rec)), rec.rooting_date)
          /\ msg' = st_success("Rooting record updated successfully!")
          /\ UNCHANGED <<deliveries, pages, connections, ratio_metric, orders, batches, infections, transfers, seq>>

\* A store with one batch, its transfers (a transfer descends from the
\* initiation or from an earlier transfer) and the rooting records placed
\* from them, MaxRows transfers and rooting records at most.
InitDefaults ==
    /\ orders = {}
    /\ infections = {}
    /\ deliveries = {}
    /\ batches = {[id |-> 1, order_id |-> NULL, num_explants |-> 1,
                   initiation_date |-> 1]}
    /\ \E nt \in 1..(MaxRows - 1) :
       \E nr \in 0..(MaxRows - nt) :
       \E ft \in {f \in [1..nt -> ({NULL} \cup (1..nt)) \X Days \X MediaTypes] :
                    \A i \in 1..nt : f[i][1] = NULL \/ f[i][1] < i} :
       \E fr \in {f \in [1..nr -> (1..nt) \X Days] :
                    \A i \in 1..nr : ft[f[i][1]][3] = "Rooting Media"} :
         /\ transfers = {[id |-> i, batch_id |-> 1,
                          parent_transfer_id |-> ft[i][1], explants_in |-> 1,
                          explants_out |-> 1, new_media |-> ft[i][3],
                          transfer_date |-> ft[i][2]] : i \in 1..nt}
         /\ rootings = {[id |-> i, transfer_id |-> fr[i][1], batch_id |-> 1,
                         num_placed |-> 1, placement_date |-> fr[i][2],
                         num_rooted |-> NULL, rooting_date |-> NULL]
                        : i \in 1..nr}
         /\ seq = [t \in TableNames |->
                    IF t = "batches" THEN 1
                    ELSE IF t = "transfers" THEN nt
                    ELSE IF t = "rootings" THEN nr
                    ELSE 0]
    /\ msg = ""
    /\ today = NULL
    /\ selected_batch = NULL
    /\ gantt_data = <<>>
    /\ timeline_items = <<>>
    /\ metrics = no_metrics
    /\ connections = 0
    /\ ratio_metric = ""

DefaultsNext ==
    \/ edit_transfer_form_untouched
    \/ edit_rooting_form_untouched

SpecDefaults == InitDefaults /\ [][DefaultsNext]_vars

\* ------------------------------------------------------------ the program
Next ==
    \/ OrderNext
    \/ ContaminationNext
    \/ RootingNext

Spec == Init /\ [][Next]_vars

\* ------------------------------------------------------------- properties
\* The quantities of the specification document, computed from the rows.

\* Sum of num_lost over the contamination records of a batch.
sum_num_lost(records, batch_id) ==
    LET rows == {r \in records : r.batch_id = batch_id}
    IN  SumOver([r \in rows |-> r.num_lost], rows)

\* healthy_remaining(batch) = num_explants - (sum of num_lost).
healthy_remaining(records, b) == b.num_explants - sum_num_lost(records, b.id)

\* Sum of num_placed over the rooting records tied to a transfer.
sum_num_placed(records, transfer_id) ==
    LET rows == {r \in records : r.transfer_id = transfer_id}
    IN  SumOver([r \in rows |-> r.num_placed], rows)

\* What one contamination record adds to total_lost.
lost_contribution(r) == IF r.num_lost = NULL THEN r.num_infected ELSE r.num_lost

\* The banners of a submission refused by validation.
RejectionBanners ==
    {"Please fill in all required fields",
     "Please enter at least one explant lost or affected",
     "Cannot lose more explants than remaining healthy count",
     "Please specify the new media type",
     "Cannot place more explants than available"}

\* C1: in every reachable state, for every batch, the sum of num_lost over
\* its contamination records is at most the batch's num_explants, that is
\* healthy_remaining(batch) >= 0.
C1_LostWithinBatch ==
    \A b \in batches : sum_num_lost(infections, b.id) <= b.num_explants

C2_Example ==
    /\ infection_form_branch(100 - 30, 80, 0) = "exceeds"
    /\ infection_form_branch(100 - 30, 70, 0) = "add"
    /\ (100 - 30) - 70 = 0

\* The claim's condition for accepting a new record.
C2_Acceptable(b, num_lost, num_affected) ==
    /\ num_lost > 0 \/ num_affected > 0
    /\ num_lost <= healthy_remaining(infections, b)

\* The form takes its adding branch exactly for the acceptable inputs.
C2_Decision ==
    \A b \in batches, num_lost \in 0..MaxCount, num_affected \in 0..MaxCount :
      (infection_form_branch(infection_remaining(b), num_lost, num_affected)
         = "add")
        <=> C2_Acceptable(b, num_lost, num_affected)

C2_Step ==
    \* an accepted submission: the inserted row carries the inputs
    /\ msg' = "Contamination record added successfully!" =>
         /\ infections' # infections
         /\ \A r \in infections' \ infections :
              LET b == Row(batches, r.batch_id)
              IN  /\ infection_form_submit(b, r.num_lost, r.num_affected)
                  /\ C2_Acceptable(b, r.num_lost, r.num_affected)
                  /\ healthy_remaining(infections', b)
                       = healthy_remaining(infections, b) - r.num_lost
    \* a refused submission
    /\ msg' \in {"Please enter at least one explant lost or affected",
                 "Cannot lose more explants than remaining healthy count"} =>
         UNCHANGED tables

\* C2: a new contamination record is accepted exactly when (num_lost > 0 or
\* num_affected > 0) and num_lost <= healthy_remaining(batch) as it was
\* before the insert, and an accepted record lowers healthy_remaining by its
\* num_lost; with 100 explants and 30 lost, 80 is refused and 70 is accepted
\* and leaves 0.
C2_AcceptedExactlyWhen == [](C2_Example /\ C2_Decision) /\ [][C2_Step]_vars

\* A batch whose last healthy explants were just recorded as lost.
C2_Witness ==
    /\ msg = "Contamination record added successfully!"
    /\ \E b \in batches :
         /\ healthy_remaining(infections, b) = 0
         /\ \E r \in infections : r.batch_id = b.id /\ r.num_lost > 0

C3_Step ==
    \A rec \in infections, b \in batches,
       num_lost \in 0..MaxCount, num_affected \in 0..MaxCount :
      ( /\ edit_infection_form_submit(rec, b, num_lost, num_affected)
        /\ num_lost > healthy_remaining(infections \ {rec}, b) )
      => UNCHANGED tables

\* C3: the edit of a contamination record is refused when the new num_lost
\* exceeds the healthy_remaining of the batch selected in the edit, computed
\* over that batch's records without the edited one, whichever batch is
\* selected.
C3_EditRefusedAboveRemaining == [][C3_Step]_vars

\* C4: a submission refused by validation (no explant lost or affected, loss
\* above the remaining healthy count, placement above the transfer's
\* remaining output, a required field missing) leaves every table unchanged.
C4_RejectionChangesNothing == [][msg' \in RejectionBanners => UNCHANGED tables]_vars

\* A placement refused on a transfer whose output is all placed.
C4_Witness ==
    /\ msg = "Cannot place more explants than available"
    /\ rootings # {}
    /\ batches # {}

\* C5: in every reachable state, for every transfer, the sum of num_placed
\* over the rooting records tied to it does not exceed its explants_out.
C5_PlacedWithinOutput ==
    \A t \in transfers : sum_num_placed(rootings, t.id) <= t.explants_out

C6_Example == rooting_form_branch(50 - 30, 25) = "exceeds"

C6_Decision ==
    \A t \in rooting_transfer_options, num_placed \in 1..MaxCount :
      (rooting_form_branch(rooting_remaining(t), num_placed) = "exceeds")
        <=> (sum_num_placed(rootings, t.id) + num_placed > t.explants_out)

C6_Step ==
    \* an accepted submission: the inserted row carries the inputs
    /\ msg' = "Rooting record added successfully!" =>
         /\ rootings' # rootings
         /\ \A r \in rootings' \ rootings :
              LET t == Row(transfers, r.transfer_id)
              IN  /\ rooting_form_submit(t, r.num_placed,
                                         COALESCE(r.num_rooted, 0),
                                         r.rooting_date)
                  /\ r.num_placed >= 1
                  /\ sum_num_placed(rootings, t.id) + r.num_placed
                       <= t.explants_out
    \* a refused submission (the rooted count and date play no part in it)
    /\ msg' = "Cannot place more explants than available" =>
         \A t \in rooting_transfer_options, num_placed \in 1..MaxCount :
           rooting_form_submit(t, num_placed, 0, NULL) =>
             /\ sum_num_placed(rootings, t.id) + num_placed > t.explants_out
             /\ UNCHANGED tables

\* C6: a rooting record for a transfer is refused whenever the num_placed
\* of the transfer's existing rooting records plus the new num_placed exceeds
\* explants_out, and is accepted otherwise for num_placed >= 1; with
\* explants_out = 50 and 30 placed, a record of 25 is refused.
C6_PlacementGate == [](C6_Example /\ C6_Decision) /\ [][C6_Step]_vars

\* A placement refused because the transfer's records already use its output.
C6_Witness ==
    /\ msg = "Cannot place more explants than available"
    /\ \E t \in rooting_transfer_options :
         /\ get_rooting_records(t.id) # {}
         /\ sum_num_placed(rootings, t.id) = t.explants_out

\* C7: in every reachable state, a rooting record whose num_rooted is set has
\* num_rooted <= num_placed.
C7_RootedWithinPlaced ==
    \A r \in rootings : r.num_rooted # NULL => r.num_rooted <= r.num_placed

C8_Example ==
    total_infections({[id |-> 1, batch_id |-> 1, num_infected |-> 12,
                       num_lost |-> NULL, num_affected |-> NULL]}, 1) = 12

C9_HealthyFiguresAgree ==
    \A b \in batches :
      /\ get_batch_summary_healthy(b.id) = infection_remaining(b)
      /\ infection_remaining(b) = healthy_remaining(infections, b)
      /\ get_batch_summary_healthy(b.id) >= 0
      /\ infection_remaining(b) >= 0

C10_RoundTrip ==
    \A r \in orders, completion_date \in Dates :
      LET completed == mark_order_completed(orders, r.id, completion_date)
          reverted == mark_order_incomplete(completed, r.id)
          after == Row(reverted, r.id)
      IN  /\ Row(completed, r.id) \in completed_of(completed)
          /\ after.completed = 0
          /\ after.completion_date = NULL
          /\ after \notin completed_of(reverted)
          /\ after \in incomplete_of(reverted)
          /\ after.id = r.id
          /\ after.client_name = r.client_name
          /\ after.cultivar = r.cultivar
          /\ after.num_plants = r.num_plants
          /\ reverted \ {after} = orders \ {r}

C10_Step ==
    /\ msg' = "Order marked as complete!" =>
         \E r \in incomplete_orders :
           /\ Row(orders', r.id) \in completed_of(orders')
           /\ Row(orders', r.id).completion_date \in Dates
    /\ msg' = "Order marked as incomplete!" =>
         \E r \in completed_orders :
           LET after == Row(orders', r.id)
           IN  /\ after \in incomplete_of(orders')
               /\ after \notin completed_of(orders')
               /\ after = [r EXCEPT !.completed = 0, !.completion_date = NULL]
               /\ orders' \ {after} = orders \ {r}

\* C10: completing an order and then marking it incomplete leaves it with
\* completed = 0 and completion_date null, absent from the completed
\* (archive) view and present in the active view, its other fields and the
\* other orders as they were.
C10_CompletionReversible == []C10_RoundTrip /\ [][C10_Step]_vars

\* An order that was completed and has just been marked incomplete again.
C10_Witness ==
    /\ msg = "Order marked as incomplete!"
    /\ \E r \in orders : r.completed = 0 /\ r.completion_date = NULL

\* ------------------------------------------------- properties: Timeline page
\* Positions of the rows one iteration of the batch loop appended.
rows_of_batch(batch_id) ==
    {i \in 1..Len(gantt_data) : gantt_data[i].batch_id = batch_id}

is_passive(row) == row.Task = "Passive Time"

\* The markers of the transfers.
is_transfer_marker(row) == \E t \in transfers : row.Task = transfer_task(t)

\* The date of the first transfer of a batch that has transfers.
first_transfer_date_of(batch_id) ==
    LET dates == {t.transfer_date : t \in get_transfer_records(batch_id)}
    IN  CHOOSE d \in dates : \A e \in dates : d <= e

\* C11: for a batch with transfers, the chart has exactly one passive row
\* between the initiation marker and the marker of the first transfer when
\* the first transfer is later than the day after the initiation (initiation
\* D, first transfer D+5: one row [D+1, D+5]), and none otherwise: the gap is
\* never covered by a second passive row.
C11_OneGapBeforeFirstTransfer ==
    \A b \in batches :
        LET mine == rows_of_batch(b.id)
            markers == {i \in mine : is_transfer_marker(gantt_data[i])}
            gaps == {i \in mine :
                        /\ is_passive(gantt_data[i])
                        /\ gantt_data[i].Start = b.initiation_date + 1
                        /\ \A j \in markers : i < j}
        IN  markers # {} =>
                Cardinality(gaps) =
                    IF first_transfer_date_of(b.id) > b.initiation_date + 1
                    THEN 1 ELSE 0

\* The row that closes a batch's rows with passive time: every other passive
\* row is followed by the marker of the event it leads to.
has_passive_through_today(batch_id) ==
    \E i \in rows_of_batch(batch_id) :
        /\ is_passive(gantt_data[i])
        /\ gantt_data[i].Finish = today
        /\ \A j \in rows_of_batch(batch_id) : j <= i

\* C12: a batch of the chart gets the passive row from the day after its
\* initiation through today exactly when it has no transfer record and today
\* is later than the day after the initiation.
C12_PassiveThroughTodayIffNoTransfers ==
    \A b \in batches :
        rows_of_batch(b.id) # {} =>
            (has_passive_through_today(b.id)
             <=> /\ get_transfer_records(b.id) = {}
                 /\ today > b.initiation_date + 1)

\* C13: the page is a function of the store and the day.  A run of the
\* Timeline page that follows another run on the same day over the same rows
\* shows the same Gantt rows (same order, dates, durations and labels) and,
\* for the same selected batch, the same batch timeline, also when events
\* share a date.
C13_Step ==
    (today # NULL /\ today' = today /\ UNCHANGED tables) =>
        /\ gantt_data' = gantt_data
        /\ selected_batch' = selected_batch =>
              (timeline_items' = timeline_items /\ msg' = msg)

event_dates_of(b) ==
    LET batch_rooting == {r \in rootings : r.batch_id = b.id}
        batch_deliveries == {d \in deliveries : d.batch_id = b.id}
    IN  UNION {{t.transfer_date : t \in get_transfer_records(b.id)},
               {r.placement_date : r \in batch_rooting},
               {r.rooting_date : r \in batch_rooting} \ {NULL},
               {d.delivery_date : d \in batch_deliveries},
               {order_completion(b)} \ {NULL}}

\* C14: the rows of a batch come in chronological order, whatever the dates of
\* its transfers, rooting records, deliveries and order completion: each row
\* starts no earlier than the row of the same batch appended before it.
\* (Stated for batches whose order is not later than the initiation and whose
\* events are not earlier than it, and leaving aside a closing passive row
\* through today.)
C14_RowsInChronologicalOrder ==
    \A b \in batches :
        (/\ rows_of_batch(b.id) # {}
         /\ Row(orders, b.order_id).order_date <= b.initiation_date
         /\ \A d \in event_dates_of(b) : d >= b.initiation_date)
        => \A i, j \in rows_of_batch(b.id) :
              (/\ i < j
               /\ ~(is_passive(gantt_data[j])
                    /\ \A k \in rows_of_batch(b.id) : k <= j))
              => gantt_data[i].Start <= gantt_data[j].Start

\* Positions of two markers of a batch with no marker of the batch between.
adjacent_markers(batch_id) ==
    LET markers == {i \in rows_of_batch(batch_id) : ~is_passive(gantt_data[i])}
    IN  {<<i, j>> \in markers \X markers :
            /\ i < j
            /\ \A k \in markers : ~(i < k /\ k < j)}

\* C15: every marker lasts one day, and between two consecutive events of a
\* batch passive time is charted exactly when the later event is more than one
\* day after the earlier one; it then runs from the end of the earlier marker
\* to the start of the later one and its Duration is that number of days.  The
\* threshold is the same for order to initiation, initiation to first transfer
\* and every later gap.
C15_GapExactlyWhenMoreThanADay ==
    /\ \A i \in 1..Len(gantt_data) :
          ~is_passive(gantt_data[i]) =>
              /\ gantt_data[i].Finish = gantt_data[i].Start + 1
              /\ gantt_data[i].Duration = 1
    /\ \A b \in batches : \A pair \in adjacent_markers(b.id) :
          LET earlier == gantt_data[pair[1]]
              later == gantt_data[pair[2]]
              between == {k \in rows_of_batch(b.id) : pair[1] < k /\ k < pair[2]}
          IN  /\ (later.Start - earlier.Start > 1) <=> between # {}
              /\ \A k \in between :
                    /\ gantt_data[k].Start = earlier.Finish
                    /\ gantt_data[k].Finish = later.Start
                    /\ gantt_data[k].Duration = later.Start - earlier.Finish

\* ----------------------------------------------- properties: delete cascades
\* C16: deleting a batch removes the batch row and every contamination,
\* transfer and rooting record of the batch, the rooting records tied to the
\* batch's transfers included, and changes no row of another batch.
C16_Step ==
    msg' = "Batch deleted successfully!" =>
        \E b \in batches :
            LET gone == {t.id : t \in get_transfer_records(b.id)}
            IN  /\ batches' = batches \ {b}
                /\ infections' = {r \in infections : r.batch_id # b.id}
                /\ transfers' = {r \in transfers : r.batch_id # b.id}
                /\ \A r \in rootings' :
                      r.batch_id # b.id /\ r.transfer_id \notin gone
                /\ \A r \in rootings :
                      (r.batch_id # b.id /\ r.transfer_id \notin gone)
                      => r \in rootings'
                /\ UNCHANGED orders

C16_BatchDeletionCascades == [][C16_Step]_vars

\* C17: deleting a transfer removes the transfer row and the rooting records
\* whose transfer_id is that transfer, and nothing else: every other transfer,
\* the rooting records of other transfers, all batches, orders and
\* contamination records are unchanged.
C17_Step ==
    msg' = "Transfer deleted successfully!" =>
        \E t \in transfers :
            /\ transfers' = transfers \ {t}
            /\ rootings' = {r \in rootings : r.transfer_id # t.id}
            /\ UNCHANGED <<batches, orders, infections>>

C17_TransferDeletionCascades == [][C17_Step]_vars

\* A transfer was deleted with its rooting records: another transfer, a
\* rooting record tied to it, the batches and the contamination record remain.
C17_Witness ==
    /\ msg = "Transfer deleted successfully!"
    /\ Cardinality(transfers) = 1
    /\ Cardinality(rootings) = 1
    /\ \A r \in rootings : r.transfer_id \in Ids(transfers)
    /\ Cardinality(batches) = 2
    /\ infections # {}

\* ------------------------------------------- properties: deleted orders
\* C18: deleting an order removes the order row only, the batches keep their
\* order_id, and the read paths take a batch whose order is gone for a batch
\* without an order and run to the end: the Batch Timeline shows the batch
\* without order entries and without an exception, also when other orders
\* are still in the store.
C18_Step ==
    /\ msg' = "Order deleted successfully!" =>
          /\ \E o \in orders : orders' = orders \ {o}
          /\ UNCHANGED <<batches, infections, transfers, rootings, deliveries>>
    /\ (/\ UNCHANGED tables
        /\ selected_batch' # NULL
        /\ Row(batches, selected_batch').order_id # NULL
        /\ Row(batches, selected_batch').order_id \notin Ids(orders))
       => /\ msg' = ""
          /\ timeline_items' # <<>>
          /\ \A i \in 1..Len(timeline_items') :
                timeline_items'[i].event \notin {"Order Received", "Order Completed"}

C18_DeletedOrderReadsAsNoOrder == [][C18_Step]_vars

\* ------------------------------------------- properties: batch timeline
\* The events of a batch in the store, each with the date stored for it.
source_events(b) ==
    LET order == {o \in orders : o.id = b.order_id}
        batch_rooting == {r \in rootings : r.batch_id = b.id}
    IN  UNION {
          {<<"orders", o.id, o.order_date>> : o \in order},
          {<<"explant_batches", b.id, b.initiation_date>>},
          {<<"infection_records", r.id, r.identification_date>> :
              r \in {x \in infections : x.batch_id = b.id}},
          {<<"transfer_records", t.id, t.transfer_date>> :
              t \in get_transfer_records(b.id)},
          {<<"rooting_records", r.id, r.placement_date>> : r \in batch_rooting},
          {<<"rooting_completion", r.id, r.rooting_date>> :
              r \in {x \in batch_rooting : x.rooting_date # NULL}},
          {<<"delivery_records", d.id, d.delivery_date>> :
              d \in {x \in deliveries : x.batch_id = b.id}},
          {<<"order_completion", o.id, o.completion_date>> :
              o \in {x \in order : x.completed = 1 /\ x.completion_date # NULL}}}

\* C19: the batch timeline shown for a batch has exactly one entry per event
\* of the batch (order receipt, initiation, each contamination record, each
\* transfer, each rooting placement, each dated rooting completion, each
\* delivery, the dated completion of a completed order), nothing else, in
\* ascending order of the stored dates, each entry showing its stored date.
C19_OneEntryPerEvent ==
    selected_batch # NULL =>
        LET events == source_events(Row(batches, selected_batch))
            stored(i) == CHOOSE e \in events :
                            <<e[1], e[2]>> = timeline_items[i].source
        IN  /\ msg = ""
            /\ Len(timeline_items) = Cardinality(events)
            /\ {timeline_items[i].source : i \in 1..Len(timeline_items)}
                  = {<<e[1], e[2]>> : e \in events}
            /\ \A i \in 1..Len(timeline_items) :
                  timeline_items[i].date = strftime(stored(i)[3])
            /\ \A i, j \in 1..Len(timeline_items) :
                  i < j => stored(i)[3] <= stored(j)[3]

\* ------------------------------------------------ properties: rooting rate
\* The rate over the records that have a rooting result: sum(num_rooted) /
\* sum(num_placed) * 100 over the records whose num_rooted is set, 0 when that
\* denominator is 0 (in tenths of a percent).
counted_rate(rooting_records) ==
    LET counted == {r \in rooting_records : r.num_rooted # NULL}
        rooted == SumOver([r \in counted |-> r.num_rooted], counted)
        placed == SumOver([r \in counted |-> r.num_placed], counted)
    IN  IF placed > 0 THEN (rooted * 1000) \div placed ELSE 0

\* C20: a rooting record without a num_rooted value counts neither in the
\* rooted total nor in the placed total of an aggregate rooting rate: the
\* "Overall Rooting Rate" of the Rooting Summary and the "Global Rooting Rate"
\* of the Statistics page are the rate over the records with a result.
C20_Step ==
    UNCHANGED tables =>
        /\ metrics'.overall # NULL =>
              \E filter_batch_id \in {NULL} \cup Ids(batches) :
                  metrics'.overall =
                      counted_rate(IF filter_batch_id = NULL THEN rootings
                                   ELSE {r \in rootings :
                                            r.batch_id = filter_batch_id})
        /\ metrics'.global # NULL =>
              \E include_archived \in BOOLEAN :
                  metrics'.global =
                      counted_rate(statistics_rooting(include_archived))

C20_PendingRecordsNotInRate == [][C20_Step]_vars

\* ---------------------------------------------- properties: transfer lineage
\* The parent of a transfer (NULL: direct from initiation, or no such row).
parent_of(transfer_id) ==
    IF transfer_id \in Ids(transfers)
    THEN Row(transfers, transfer_id).parent_transfer_id
    ELSE NULL

RECURSIVE reaches_no_parent(_, _)
\* Following parent links from this transfer reaches "no parent" within the
\* given number of steps.
reaches_no_parent(transfer_id, steps) ==
    IF transfer_id = NULL THEN TRUE
    ELSE IF steps = 0 THEN FALSE
    ELSE reaches_no_parent(parent_of(transfer_id), steps - 1)

\* C21: after any sequence of add-transfer and edit-transfer operations the
\* parent links form a forest per batch: from every transfer the parent links
\* lead to "no parent" (no transfer is its own ancestor), and every parent is
\* a transfer of the same batch.
C21_ParentLinksFormForest ==
    \A t \in transfers :
        /\ reaches_no_parent(t.id, Cardinality(transfers))
        /\ t.parent_transfer_id # NULL =>
              \E p \in transfers : /\ p.id = t.parent_transfer_id
                                   /\ p.batch_id = t.batch_id

\* ------------------------------------------------- properties: connections
\* C22: every store operation releases its connection before it returns, on
\* every exit path, the one where the SQL statement raises included: after
\* any operation, finished or failed, no connection it opened is open.
C22_NoConnectionLeftOpen == connections = 0

\* ------------------------------------------ properties: legacy aggregate
C23_Aggregate ==
    \A r \in infections : r.num_infected = r.num_lost + r.num_affected

C23_Step ==
    \* an accepted submission: the inserted row is the submitted batch and
    \* counts with their sum
    /\ msg' = "Contamination record added successfully!" =>
         /\ infections' # infections
         /\ \A r \in infections' \ infections :
              /\ infection_form_submit(Row(batches, r.batch_id), r.num_lost,
                                       r.num_affected)
              /\ r.num_infected = r.num_lost + r.num_affected
    \* an accepted edit: the row written is the submitted batch and counts
    \* with their sum
    /\ msg' = "Contamination record updated successfully!" =>
         \A r \in infections' \ infections :
              /\ edit_infection_form_submit(Row(infections, r.id),
                     Row(batches, r.batch_id), r.num_lost, r.num_affected)
              /\ r.num_infected = r.num_lost + r.num_affected

\* C23: every contamination record written by add_infection_record or
\* update_infection_record has num_infected = num_lost + num_affected, and
\* num_lost and num_affected are stored as they were given.
C23_InfectedIsLostPlusAffected == []C23_Aggregate /\ [][C23_Step]_vars

\* A record with explants both lost and affected was added, and a record was
\* then edited to other counts.
C23_Witness ==
    /\ msg = "Contamination record updated successfully!"
    /\ \E r \in infections : r.num_lost > 0 /\ r.num_affected > 0
    /\ \E r \in infections : r.num_lost = 0 /\ r.num_affected > 0

\* ----------------------------------------- properties: multiplication ratio
\* h hundredths written with two decimal places.
two_decimals(h) ==
    ToString(h \div 100) \o "." \o ToString((h % 100) \div 10)
                         \o ToString(h % 10)

\* h is a hundredth nearest to explants_out / explants_in.
nearest_hundredth(h, explants_in, explants_out) ==
    LET diff == 100 * explants_out - h * explants_in
    IN  2 * (IF diff < 0 THEN 0 - diff ELSE diff) <= explants_in

C24_Defined ==
    \A t \in transfers : t.explants_in >= 1 /\ t.explants_out >= 1

C24_Example == multiplication_ratio(10, 25) = "2.50x"

C24_Step ==
    msg' = "Transfer recorded successfully!" =>
        \A t \in transfers' \ transfers :
            \E h \in 0..(100 * t.explants_out) :
                /\ nearest_hundredth(h, t.explants_in, t.explants_out)
                /\ ratio_metric' = two_decimals(h) \o "x"

is_delivery_marker(row) ==
    \E d \in deliveries :
        row.Task = "Delivery: " \o ToString(d.num_delivered) \o " delivered"

\* The rows of the batch emitted before position k that are events (not
\* passive time), by position.
events_before(k, batch_id) ==
    {j \in 1..(k - 1) : /\ gantt_data[j].batch_id = batch_id
                        /\ ~is_passive(gantt_data[j])}

\* C25: for every batch of the Gantt chart, one without transfers included,
\* the passive interval before a delivery marker or before the Order
\* Completed marker starts at the end of the same batch's most recently
\* emitted event (so it depends on the batch's own records and order only,
\* not on the batches handled before it), and the chart is assembled.
C25_GapStartsAtOwnLastEvent ==
    today # NULL =>
        /\ msg # "NameError: name 'prev_date' is not defined"
        /\ \A k \in 2..Len(gantt_data) :
              LET marker == gantt_data[k]
                  gap == gantt_data[k - 1]
                  own == events_before(k, marker.batch_id)
              IN  ( /\ is_delivery_marker(marker) \/ marker.Task = "Order Completed"
                    /\ is_passive(gap) )
                  => /\ gap.batch_id = marker.batch_id
                     /\ own # {}
                     /\ gap.Start = gantt_data[CHOOSE j \in own :
                                                  \A i \in own : i <= j].Finish

\* ------------------------------------------ properties: rooting confirmation
\* C26: in every reachable state num_rooted of a rooting record is null
\* exactly when its rooting_date is null: both are null until rooting is
\* confirmed and add_rooting_record, update_rooting_record and
\* update_rooting_record_full set them together.
C26_RootedIffRootingDate ==
    \A r \in rootings : (r.num_rooted = NULL) <=> (r.rooting_date = NULL)

\* ------------------------------------------- properties: order completion
C27_DateIffCompleted ==
    \A o \in orders : (o.completion_date # NULL) <=> (o.completed = 1)

C27_Step ==
    \* a new order is open and has no completion date
    /\ \A o \in orders' :
          o.id \notin Ids(orders) => o.completed = 0 /\ o.completion_date = NULL
    \* only the two completion operations change the two fields
    /\ \A o \in orders, p \in orders' :
          ( /\ p.id = o.id
            /\ \/ p.completed # o.completed
               \/ p.completion_date # o.completion_date )
          => \/ /\ msg' = "Order marked as complete!"
                /\ p.completed = 1 /\ p.completion_date # NULL
             \/ /\ msg' = "Order marked as incomplete!"
                /\ p.completed = 0 /\ p.completion_date = NULL

\* C27: in every reachable state an order has a completion_date exactly when
\* completed = 1, and only mark_order_completed and mark_order_incomplete
\* change the two fields: add_order creates the order open with no
\* completion_date and update_order leaves both as they are.
C27_CompletionDateIffCompleted == []C27_DateIffCompleted /\ [][C27_Step]_vars

\* A completed order, with its completion date, has just been edited.
C27_Witness ==
    /\ msg = "Order updated successfully!"
    /\ \E o \in orders : o.completed = 1 /\ o.completion_date # NULL

\* --------------------------------------- properties: references to transfers
\* C28: in every reachable state a rooting record with a transfer_id has the
\* batch_id of the transfer it refers to; adding a rooting record, the full
\* edit of a rooting record and the edit of a transfer's batch keep it so.
C28_RootingBatchIsTransferBatch ==
    \A r \in rootings, t \in transfers :
        r.transfer_id = t.id => r.batch_id = t.batch_id

\* C29: after any sequence of operations, deletions of transfers and batches
\* included, no surviving record refers to a deleted transfer: every
\* parent_transfer_id of a transfer and every transfer_id of a rooting record
\* that is not null is the id of a transfer in the store.
C29_NoDanglingTransferReference ==
    /\ \A t \in transfers :
          t.parent_transfer_id # NULL => t.parent_transfer_id \in Ids(transfers)
    /\ \A r \in rootings :
          r.transfer_id # NULL => r.transfer_id \in Ids(transfers)

\* ------------------------------------------- properties: edit form defaults
C30_Step ==
    /\ msg' = "Transfer updated successfully!" =>
          \A t \in transfers : \E u \in transfers' :
              u.id = t.id /\ u.parent_transfer_id = t.parent_transfer_id
    /\ msg' = "Rooting record updated successfully!" =>
          \A r \in rootings : \E s \in rootings' :
              s.id = r.id /\ s.transfer_id = r.transfer_id

\* C30: an edit form submitted without touching its reference selectors
\* leaves the references as they were: the edit of a transfer keeps its
\* parent_transfer_id and the edit of a rooting record keeps its transfer_id,
\* the default selection being the stored parent or transfer.
C30_UntouchedSelectorsKeepReferences == [][C30_Step]_vars

====
